---- MODULE Spec2Model ----
(***************************************************************************)
(* Model of resgate's resource cache: ResourceSubscription                 *)
(* (server/rescache/resourceSubscription.go), the EventSubscription that   *)
(* serialises its work items, and the LCS diff engine.                     *)
(***************************************************************************)
EXTENDS Integers, Sequences, FiniteSets, Bags, TLC

(***************************************************************************)
(* Bounds of the model.                                                    *)
(***************************************************************************)
\* Longest collection handed to lcs.
MaxLen == 3
\* Longest collection a D caches (an add that would grow it further is not
\* generated by the bus).
MaxCol == 2
\* Number of ResourceSubscription objects ever allocated, in Spec and DataSpec.
MaxRs == 3
\* Number of ResourceSubscription objects ever allocated, in NormSpec.
MaxRsDeep == 5
\* Calls of Start and Stop a thread makes, in SvcSpec.
MaxCalls == 2

(***************************************************************************)
(* Values.  codec.Value is modelled by a small set of primitives; Equal is *)
(* structural equality.                                                    *)
(***************************************************************************)
Vals == {"v1", "v2", "v3"}

RECURSIVE SeqsUpTo(_, _)
SeqsUpTo(S, n) ==
    IF n = 0 THEN {<<>>}
    ELSE LET shorter == SeqsUpTo(S, n - 1)
         IN  shorter \cup {Append(t, x) : t \in {u \in shorter : Len(u) = n - 1}, x \in S}


(***************************************************************************)
(* Models.  A map[string]codec.Value is a function on Keys whose missing   *)
(* keys are Absent; DeleteValue is the codec's delete sentinel.            *)
(***************************************************************************)
Keys == {"k1", "k2"}
Absent == "absent"
DeleteValue == "Delete"
NoValue == "none"
EmptyMap == [k \in Keys |-> Absent]
MapLen(m) == Cardinality({k \in Keys : m[k] # Absent})

(***************************************************************************)
(* The codec facade: payloads are kept decoded; a payload the codec cannot *)
(* decode has ok = FALSE.                                                  *)
(***************************************************************************)
EncodeChangeEvent(props) == [ok |-> TRUE, props |-> props, idx |-> 0, value |-> NoValue]
EncodeAddEvent(idx, v) == [ok |-> TRUE, props |-> EmptyMap, idx |-> idx, value |-> v]
EncodeRemoveEvent(idx) == [ok |-> TRUE, props |-> EmptyMap, idx |-> idx, value |-> NoValue]
EmptyPayload == [ok |-> TRUE, props |-> EmptyMap, idx |-> 0, value |-> NoValue]
BadPayload == [ok |-> FALSE, props |-> EmptyMap, idx |-> 0, value |-> NoValue]
\* props is nil when decoding fails
DecodeChangeEvent(p) == [err |-> ~p.ok, props |-> IF p.ok THEN p.props ELSE EmptyMap]
DecodeAddEvent(p) == [err |-> ~p.ok, Idx |-> p.idx, Value |-> p.value]
DecodeRemoveEvent(p) == [err |-> ~p.ok, Idx |-> p.idx]

\* A ResourceEvent as the bus or a reset creates it: nothing stamped yet.
NewEvent(kind, payload) ==
    [Event |-> kind, Payload |-> payload, Changed |-> EmptyMap,
     OldValues |-> EmptyMap, Idx |-> 0, Value |-> NoValue]

(***************************************************************************)
(* Slice splicing of handleEventAdd and handleEventRemove.  idx is the     *)
(* 0-based Go index; sequences here are 1-based.                           *)
(***************************************************************************)
\* col := make(l+1); copy(col, old[0:idx]); copy(col[idx+1:], old[idx:]); col[idx] = v
InsertAt(old, idx, v) ==
    [p \in 1..(Len(old) + 1) |->
        IF p - 1 < idx THEN old[p]
        ELSE IF p - 1 = idx THEN v
        ELSE old[p - 1]]

\* col := make(l-1); copy(col, old[0:idx]); copy(col[idx:], old[idx+1:])
RemoveAt(old, idx) ==
    [p \in 1..(Len(old) - 1) |->
        IF p - 1 < idx THEN old[p] ELSE old[p + 1]]

(***************************************************************************)
(* The diff engine: lcs(a, b).                                             *)
(***************************************************************************)
\* Length s of the matching prefix: for s < m && s < n && a[s].Equal(b[s]) { s++ }
RECURSIVE LcsPrefix(_, _, _)
LcsPrefix(a, b, s) ==
    IF s < Len(a) /\ s < Len(b) /\ a[s + 1] = b[s + 1]
    THEN LcsPrefix(a, b, s + 1)
    ELSE s

\* Number of elements trimmed at the end:
\* for s < m && s < n && a[m-1].Equal(b[n-1]) { m--; n-- }
RECURSIVE LcsSuffix(_, _, _, _)
LcsSuffix(a, b, s, t) ==
    IF s < Len(a) - t /\ s < Len(b) - t /\ a[Len(a) - t] = b[Len(b) - t]
    THEN LcsSuffix(a, b, s, t + 1)
    ELSE t

\* LcsFill keeping the left neighbour even when the upper one is larger.
RECURSIVE LcsFillLeft(_, _, _, _)
LcsFillLeft(aa, bb, c, k) ==
    LET m == Len(aa)
        n == Len(bb)
        w == m + 1
    IN  IF m = 0 \/ n = 0 \/ k >= m * n THEN c
        ELSE LET i == k \div n
                 j == k % n
                 v  == IF aa[i + 1] = bb[j + 1]
                       THEN c[(i + w * j) + 1] + 1
                       ELSE c[((i + 1) + w * j) + 1]
             IN  LcsFillLeft(aa, bb, [c EXCEPT ![((i + 1) + w * (j + 1)) + 1] = v], k + 1)

\* The flat matrix c, w = m+1 wide, filled by the double loop (i outer, j
\* inner).  c[x] of the code is c[x + 1] here.  k counts the loop's iterations.
RECURSIVE LcsFill(_, _, _, _)
LcsFill(aa, bb, c, k) ==
    LET m == Len(aa)
        n == Len(bb)
        w == m + 1
    IN  IF m = 0 \/ n = 0 \/ k >= m * n THEN c
        ELSE LET i == k \div n
                 j == k % n
                 v1 == c[((i + 1) + w * j) + 1]
                 v2 == c[(i + w * (j + 1)) + 1]
                 v  == IF aa[i + 1] = bb[j + 1]
                       THEN c[(i + w * j) + 1] + 1
                       ELSE IF v2 > v1 THEN v2 ELSE v1
             IN  LcsFill(aa, bb, [c EXCEPT ![((i + 1) + w * (j + 1)) + 1] = v], k + 1)

LcsMatrix(aa, bb) ==
    LcsFill(aa, bb, [x \in 1..((Len(aa) + 1) * (Len(bb) + 1)) |-> 0], 0)

RemoveStep(idx) == NewEvent("remove", EncodeRemoveEvent(idx))
AddStep(idx, v) == NewEvent("add", EncodeAddEvent(idx, v))

\* The backtracking loop.  st = [i, j, idx, r, steps, adds]; an entry of
\* adds is the triple <<n, idx, r>> of the code.
RECURSIVE LcsBacktrack(_, _, _, _)
LcsBacktrack(aa, bb, c, st) ==
    LET w == Len(aa) + 1
        i == st.i
        j == st.j
        m == i - 1
        n == j - 1
    IN  IF i > 0 /\ j > 0 /\ aa[m + 1] = bb[n + 1]
        THEN LcsBacktrack(aa, bb, c,
                 [st EXCEPT !.idx = @ - 1, !.i = i - 1, !.j = j - 1])
        ELSE IF j > 0 /\ (i = 0 \/ c[(i + w * n) + 1] >= c[(m + w * j) + 1])
        THEN LcsBacktrack(aa, bb, c,
                 [st EXCEPT !.adds = Append(@, <<n, st.idx, st.r>>), !.j = j - 1])
        ELSE IF i > 0 /\ (j = 0 \/ c[(i + w * n) + 1] < c[(m + w * j) + 1])
        THEN LcsBacktrack(aa, bb, c,
                 [st EXCEPT !.idx = @ - 1,
                            !.steps = Append(@, RemoveStep(st.idx - 1)),
                            !.r = @ + 1,
                            !.i = i - 1])
        ELSE st

\* LcsAdds without the shift l - i for the adds emitted before.
LcsAddsUnshifted(bb, adds, r) ==
    LET l == Len(adds) - 1
    IN  [p \in 1..Len(adds) |->
            LET i   == l - (p - 1)
                add == adds[i + 1]
            IN  AddStep(add[2] - r + add[3], bb[add[1] + 1])]

\* The adds, appended after the removes from the last collected to the first:
\* for i := l; i >= 0; i-- { Idx: add[1] - r + add[2] + l - i }
LcsAdds(bb, adds, r) ==
    LET l == Len(adds) - 1
    IN  [p \in 1..Len(adds) |->
            LET i   == l - (p - 1)
                add == adds[i + 1]
            IN  AddStep(add[2] - r + add[3] + l - i, bb[add[1] + 1])]

lcs(a, b) ==
    LET s == LcsPrefix(a, b, 0)
    IN  IF s = Len(a) /\ s = Len(b) THEN <<>>
        ELSE LET t  == LcsSuffix(a, b, s, 0)
                 aa == SubSeq(a, s + 1, Len(a) - t)
                 bb == SubSeq(b, s + 1, Len(b) - t)
                 c  == LcsMatrix(aa, bb)
                 bt == LcsBacktrack(aa, bb, c,
                           [i |-> Len(aa), j |-> Len(bb), idx |-> Len(aa) + s,
                            r |-> 0, steps |-> <<>>, adds |-> <<>>])
             IN  bt.steps \o LcsAdds(bb, bt.adds, bt.r)

(***************************************************************************)
(* The ResourceSubscription state machine.                                 *)
(***************************************************************************)
stateSubscribed == 0
stateError == 1
stateRequested == 2
stateCollection == 3
stateModel == 4

\* Subscribers, and the order a set of them is walked in.
SubOrder == <<"s1", "s2", "s3">>
Subs == {SubOrder[i] : i \in 1..Len(SubOrder)}
\* Non-empty query strings, in the order e.queries is walked in.
QOrder == <<"a", "b">>
QueryStrs == {QOrder[i] : i \in 1..Len(QOrder)}
Queries == {""} \cup QueryStrs

NoRs == 0
NoPtr == 0
NoErr == ""
ErrNotFound == "system.notFound"
ErrTimeout == "system.timeout"
Errs == {ErrNotFound, ErrTimeout}

\* Containers (the map of a Model, the slice of a Collection) live in a heap;
\* rs.model and rs.collection point into it.  A free slot holds EmptyC.
RsCap == IF MaxRs > MaxRsDeep THEN MaxRs ELSE MaxRsDeep
MaxPtr == RsCap + Len(SubOrder) + 1
Ptrs == 1..MaxPtr
EmptyC == [m |-> EmptyMap, c |-> <<>>]

VARIABLES
    rss,        \* the ResourceSubscription objects allocated so far, by id
    base,       \* e.base: a D id or NoRs
    queries,    \* e.queries: query string -> D id or NoRs
    links,      \* e.links: query string -> D id or NoRs
    count,      \* e.count: the subscriber refcount
    gets,       \* get requests sent and not yet answered: a bag of [rs, reset]
    heap,       \* Ptrs -> container
    crashed,    \* a work item panicked
    phase,      \* subscriber -> "idle" | "subscribed" | "unsubscribed"
    handle,     \* subscriber -> the D it calls Unsubscribe, GetModel, ... on
    loaded,     \* subscriber -> number of Loaded callbacks received
    held,       \* subscriber -> container it got from GetModel/GetCollection
    cbs,        \* Subscriber callbacks made by the last work item, in order
    last,       \* the last work item
    rview,      \* subscriber -> its replica of a D since the D's reset began
    la, lb,     \* the sequences handed to lcs
    lsteps,     \* the events lcs returned
    lpos,       \* how many of them have been applied
    lcur,       \* a, as mutated by the events applied so far
    lok,        \* every event applied so far found its index in range
    lpc,        \* "off" | "start" | "apply" | "done"
    mu,         \* e.mu: who holds the EventSubscription's mutex, "" when free
    wpc,        \* the worker's position in the work item it runs
    wq,         \* the Subscriber callbacks the work item has still to make
    wrd,        \* the fields of the D the worker reads while it makes them
    cbpc,       \* the position of the callback the worker is in
    tpc,        \* subscriber -> position of its own thread
    smu,        \* Service.mu: the thread that holds it, NoThread when free
    stopping,   \* Service.stopping
    stop,       \* Service.stop: a channel of chans, NoChan for nil
    chans,      \* the stop channels made so far: [sent, closed]
    spc,        \* thread -> its position in Start or Stop
    sret,       \* thread -> what its last call of Start returned
    scalls,     \* thread -> calls of Start and Stop it has made
    mqStarts,   \* calls of startMQClient
    httpStarts  \* calls of startHTTPServer

cacheVars == <<rss, base, queries, links, count, gets, heap, crashed>>
subVars == <<phase, handle, loaded, held, cbs, last, rview>>
lcsVars == <<la, lb, lsteps, lpos, lcur, lok, lpc>>
lockVars == <<mu, wpc, wq, wrd, cbpc, tpc>>
svcVars == <<smu, stopping, stop, chans, spc, sret, scalls, mqStarts, httpStarts>>
vars == <<cacheVars, subVars, lcsVars, lockVars, svcVars>>

\* newResourceSubscription
newResourceSubscription(query) ==
    [query |-> query, state |-> stateSubscribed, subs |-> {},
     resetting |-> FALSE, links |-> <<>>, model |-> NoPtr,
     collection |-> NoPtr, err |-> NoErr]

Range(f) == {f[x] : x \in DOMAIN f}

\* The program state a work item runs on, with the callbacks it has made.
Cur ==
    [rss |-> rss, base |-> base, queries |-> queries, links |-> links,
     count |-> count, gets |-> gets, heap |-> heap, crashed |-> FALSE,
     cbs |-> <<>>]

\* The slots holding a container that a D or a subscriber points to.
InUse(st) ==
    {st.rss[i].model : i \in DOMAIN st.rss} \cup {st.rss[i].collection : i \in DOMAIN st.rss}
    \cup {held[s].ptr : s \in Subs}

\* A fresh container (make, &Model{}, &Collection{}): a slot not in use.
Alloc(st, content) ==
    LET free == Ptrs \ InUse(st)
        p == CHOOSE x \in free : \A y \in free : x <= y
    IN  [st |-> [st EXCEPT !.heap[p] = content], p |-> p]

\* mq.SendRequest(subj, payload, callback): one more get awaits its reply.
\* reset tells which callback it carries: the one of handleResetResource or
\* the one that calls enqueueGetResponse.
SendRequest(st, id, reset) ==
    [st EXCEPT !.gets = @ (+) SetToBag({[rs |-> id, reset |-> reset]})]

\* The get whose reply arrives is no longer in flight.
Answered(st, g) == [st EXCEPT !.gets = @ (-) SetToBag({g})]

\* Subscriber callbacks.
CbLoaded(s, id, err) == [kind |-> "Loaded", sub |-> s, rs |-> id, err |-> err, ev |-> NewEvent("", EmptyPayload)]
CbEvent(s, id, r) == [kind |-> "Event", sub |-> s, rs |-> id, err |-> NoErr, ev |-> r]
SubList(S) == SelectSeq(SubOrder, LAMBDA s : s \in S)
NotifyEvent(st, S, id, r) ==
    LET l == SubList(S)
    IN  [st EXCEPT !.cbs = @ \o [i \in 1..Len(l) |-> CbEvent(l[i], id, r)]]
NotifyLoaded(st, S, id, err) ==
    LET l == SubList(S)
    IN  [st EXCEPT !.cbs = @ \o [i \in 1..Len(l) |-> CbLoaded(l[i], id, err)]]

\* sub.Reaccess() for every subscriber of S
NotifyReaccess(st, S, id) ==
    LET l == SubList(S)
    IN  [st EXCEPT !.cbs = @ \o [i \in 1..Len(l) |->
            [kind |-> "Reaccess", sub |-> l[i], rs |-> id, err |-> NoErr,
             ev |-> NewEvent("", EmptyPayload)]]]

\* e.removeCount
removeCount(st, n) == [st EXCEPT !.count = @ - n]

\* rs.unregister
unregister(st, id) ==
    LET rs == st.rss[id]
        ls == Range(rs.links)
        s1 == IF rs.query = ""
              THEN [st EXCEPT !.base = NoRs]
              ELSE [st EXCEPT !.queries[rs.query] = NoRs]
    IN  [s1 EXCEPT !.base = IF "" \in ls THEN NoRs ELSE @,
                   !.links = [q \in QueryStrs |-> IF q \in ls THEN NoRs ELSE s1.links[q]],
                   !.rss[id].links = <<>>]

\* handleEventChange forwarding the decoded properties as they came.
handleEventChangeAll(st, id, r) ==
    LET rs == st.rss[id] IN
    IF rs.state = stateCollection THEN [ok |-> FALSE, st |-> st, r |-> r]
    ELSE
    LET in   == DecodeChangeEvent(r.Payload).props
        old  == st.heap[rs.model].m
        m    == [k \in Keys |->
                   IF in[k] = Absent THEN old[k]
                   ELSE IF in[k] = DeleteValue THEN Absent
                   ELSE in[k]]
    IN  IF MapLen(in) = 0 THEN [ok |-> FALSE, st |-> st, r |-> r]
        ELSE LET a == Alloc(st, [m |-> m, c |-> <<>>])
             IN  [ok |-> TRUE,
                  st |-> [a.st EXCEPT !.rss[id].model = a.p],
                  r  |-> [r EXCEPT !.Changed = in, !.OldValues = old]]

\* rs.handleEventChange: [ok, st, r]
handleEventChange(st, id, r) ==
    LET rs == st.rss[id] IN
    IF rs.state = stateCollection THEN [ok |-> FALSE, st |-> st, r |-> r]
    ELSE
    LET in   == DecodeChangeEvent(r.Payload).props
        old  == st.heap[rs.model].m
        m    == [k \in Keys |->
                   IF in[k] = Absent THEN old[k]
                   ELSE IF in[k] = DeleteValue THEN Absent
                   ELSE in[k]]
        props == [k \in Keys |->
                   IF in[k] = Absent THEN Absent
                   ELSE IF in[k] = DeleteValue
                        THEN (IF old[k] # Absent THEN DeleteValue ELSE Absent)
                   ELSE IF old[k] = in[k] THEN Absent
                   ELSE in[k]]
    IN  IF MapLen(props) = 0 THEN [ok |-> FALSE, st |-> st, r |-> r]
        ELSE LET a == Alloc(st, [m |-> m, c |-> <<>>])
             IN  [ok |-> TRUE,
                  st |-> [a.st EXCEPT !.rss[id].model = a.p],
                  r  |-> [r EXCEPT !.Changed = props, !.OldValues = old]]

\* handleEventAdd splicing the value into the cached slice itself.
handleEventAddInPlace(st, id, r) ==
    LET rs == st.rss[id] IN
    IF rs.state = stateModel THEN [ok |-> FALSE, st |-> st, r |-> r]
    ELSE
    LET params == DecodeAddEvent(r.Payload)
        idx == params.Idx
        old == st.heap[rs.collection].c
        l   == Len(old)
    IN  IF params.err \/ idx < 0 \/ idx > l THEN [ok |-> FALSE, st |-> st, r |-> r]
        ELSE [ok |-> TRUE,
              st |-> [st EXCEPT !.heap[rs.collection].c = InsertAt(old, idx, params.Value)],
              r  |-> [r EXCEPT !.Idx = params.Idx, !.Value = params.Value]]

\* rs.handleEventAdd: [ok, st, r]
handleEventAdd(st, id, r) ==
    LET rs == st.rss[id] IN
    IF rs.state = stateModel THEN [ok |-> FALSE, st |-> st, r |-> r]
    ELSE
    LET params == DecodeAddEvent(r.Payload)
        idx == params.Idx
        old == st.heap[rs.collection].c
        l   == Len(old)
    IN  IF params.err \/ idx < 0 \/ idx > l THEN [ok |-> FALSE, st |-> st, r |-> r]
        ELSE LET a == Alloc(st, [m |-> EmptyMap, c |-> InsertAt(old, idx, params.Value)])
             IN  [ok |-> TRUE,
                  st |-> [a.st EXCEPT !.rss[id].collection = a.p],
                  r  |-> [r EXCEPT !.Idx = params.Idx, !.Value = params.Value]]

\* handleEventRemove forwarding the event without the removed value.
handleEventRemoveUnstamped(st, id, r) ==
    LET rs == st.rss[id] IN
    IF rs.state = stateModel THEN [ok |-> FALSE, st |-> st, r |-> r]
    ELSE
    LET params == DecodeRemoveEvent(r.Payload)
        idx == params.Idx
        old == st.heap[rs.collection].c
        l   == Len(old)
    IN  IF params.err \/ idx < 0 \/ idx >= l THEN [ok |-> FALSE, st |-> st, r |-> r]
        ELSE LET a == Alloc(st, [m |-> EmptyMap, c |-> RemoveAt(old, idx)])
             IN  [ok |-> TRUE,
                  st |-> [a.st EXCEPT !.rss[id].collection = a.p],
                  r  |-> [r EXCEPT !.Idx = params.Idx]]

\* rs.handleEventRemove: [ok, st, r]
handleEventRemove(st, id, r) ==
    LET rs == st.rss[id] IN
    IF rs.state = stateModel THEN [ok |-> FALSE, st |-> st, r |-> r]
    ELSE
    LET params == DecodeRemoveEvent(r.Payload)
        idx == params.Idx
        old == st.heap[rs.collection].c
        l   == Len(old)
    IN  IF params.err \/ idx < 0 \/ idx >= l THEN [ok |-> FALSE, st |-> st, r |-> r]
        ELSE LET a == Alloc(st, [m |-> EmptyMap, c |-> RemoveAt(old, idx)])
             IN  [ok |-> TRUE,
                  st |-> [a.st EXCEPT !.rss[id].collection = a.p],
                  r  |-> [r EXCEPT !.Value = old[idx + 1], !.Idx = params.Idx]]

\* handleEventDelete without its call of unregister.
handleEventDeleteRegistered(st, id, r) ==
    LET subs == st.rss[id].subs
        c    == Cardinality(subs)
        s1   == [st EXCEPT !.rss[id].subs = {}]
        s2   == removeCount(s1, c)
    IN  NotifyEvent(s2, subs, id, r)

\* rs.handleEventDelete
handleEventDelete(st, id, r) ==
    LET subs == st.rss[id].subs
        c    == Cardinality(subs)
        s1   == [st EXCEPT !.rss[id].subs = {}]
        s2   == removeCount(unregister(s1, id), c)
    IN  NotifyEvent(s2, subs, id, r)

\* rs.handleEvent
handleEvent(st, id, r) ==
    LET rs == st.rss[id] IN
    IF rs.state <= stateRequested /\ r.Event # "reaccess" THEN st
    ELSE IF r.Event = "delete"
    THEN (IF ~rs.resetting THEN handleEventDelete(st, id, r) ELSE st)
    ELSE IF r.Event \in {"change", "add", "remove"}
    THEN IF rs.resetting THEN st
         ELSE LET res == IF r.Event = "change" THEN handleEventChange(st, id, r)
                         ELSE IF r.Event = "add" THEN handleEventAdd(st, id, r)
                         ELSE handleEventRemove(st, id, r)
              IN  IF ~res.ok THEN st
                  ELSE NotifyEvent(res.st, res.st.rss[id].subs, id, res.r)
    ELSE NotifyEvent(st, rs.subs, id, r)

(***************************************************************************)
(* Get replies.  A reply is a transport error (err), an undecodable        *)
(* payload (bad), or a result: a model (isModel) or a collection, with the *)
(* normalized query.                                                       *)
(***************************************************************************)
ErrDecode == "system.internalError"
ModelReply(q, m) == [err |-> NoErr, bad |-> FALSE, query |-> q, isModel |-> TRUE, model |-> m, collection |-> <<>>]
CollectionReply(q, c) == [err |-> NoErr, bad |-> FALSE, query |-> q, isModel |-> FALSE, model |-> EmptyMap, collection |-> c]
ErrorReply(e) == [err |-> e, bad |-> FALSE, query |-> "", isModel |-> FALSE, model |-> EmptyMap, collection |-> <<>>]
BadReply == [err |-> NoErr, bad |-> TRUE, query |-> "", isModel |-> FALSE, model |-> EmptyMap, collection |-> <<>>]
\* if err == nil { result, err = codec.DecodeGetResponse(payload) }
DecodeGetResponse(reply) ==
    IF reply.err # NoErr THEN reply.err
    ELSE IF reply.bad THEN ErrDecode
    ELSE NoErr

\* e.getResourceSubscription: the D a query resolves to, NoRs when there is none
Lookup(st, q) ==
    IF q = "" THEN st.base
    ELSE IF st.queries[q] # NoRs THEN st.queries[q]
    ELSE st.links[q]

\* e.getResourceSubscription: [st, id], creating the D when there is none
getResourceSubscription(st, q) ==
    IF Lookup(st, q) # NoRs THEN [st |-> st, id |-> Lookup(st, q)]
    ELSE LET id == Len(st.rss) + 1
             s1 == [st EXCEPT !.rss = Append(@, newResourceSubscription(q))]
         IN  [st |-> IF q = "" THEN [s1 EXCEPT !.base = id]
                     ELSE [s1 EXCEPT !.queries[q] = id],
              id |-> id]

\* Whether getResourceSubscription(q) can run with at most max D objects.
CanResolve(q, max) == Lookup(Cur, q) # NoRs \/ Len(rss) < max

\* rs.processGetResponse: [st, nrs, sublist]
processGetResponse(st, id, reply) ==
    LET rs  == st.rss[id]
        err == DecodeGetResponse(reply)
    IN
    IF err # NoErr
    THEN LET s1 == [st EXCEPT !.rss[id].state = stateError, !.rss[id].err = err,
                              !.rss[id].subs = {}]
             c  == Cardinality(rs.subs)
         IN  [st |-> removeCount(unregister(s1, id), c), nrs |-> id, sublist |-> rs.subs]
    ELSE
    LET g   == IF reply.query # rs.query
               THEN getResourceSubscription(st, reply.query)
               ELSE [st |-> st, id |-> id]
        nrs == g.id
        s1  == IF reply.query = rs.query THEN g.st
               ELSE LET t1 == IF rs.query = ""
                              THEN [g.st EXCEPT !.base = nrs]
                              ELSE [g.st EXCEPT !.links[rs.query] = nrs,
                                                !.queries[rs.query] = NoRs]
                    IN  [t1 EXCEPT !.rss[nrs].links = Append(@, rs.query),
                                   !.rss[nrs].subs = @ \cup rs.subs]
        sublist == rs.subs
    IN  IF s1.rss[nrs].state > stateRequested
        THEN [st |-> s1, nrs |-> nrs, sublist |-> sublist]
        ELSE IF reply.isModel
        THEN LET a == Alloc(s1, [m |-> reply.model, c |-> <<>>])
             IN  [st |-> [a.st EXCEPT !.rss[nrs].model = a.p, !.rss[nrs].state = stateModel],
                  nrs |-> nrs, sublist |-> sublist]
        ELSE LET a == Alloc(s1, [m |-> EmptyMap, c |-> reply.collection])
             IN  [st |-> [a.st EXCEPT !.rss[nrs].collection = a.p, !.rss[nrs].state = stateCollection],
                  nrs |-> nrs, sublist |-> sublist]

\* enqueueGetResponse without its look at the state: Loaded(rs, nil) always.
enqueueGetResponseLoaded(st, id, reply) ==
    LET p == processGetResponse(st, id, reply)
    IN  NotifyLoaded(p.st, p.sublist, p.nrs, NoErr)

\* rs.enqueueGetResponse: the work item run for the reply to the initial get
enqueueGetResponse(st, id, reply) ==
    LET p  == processGetResponse(st, id, reply)
        rs == p.st.rss[p.nrs]
    IN  IF rs.state = stateError
        THEN NotifyLoaded(p.st, p.sublist, NoRs, rs.err)
        ELSE NotifyLoaded(p.st, p.sublist, p.nrs, NoErr)

\* handleResetResource without its quick exit.
handleResetResourceAgain(st, id) ==
    SendRequest([st EXCEPT !.rss[id].resetting = TRUE], id, TRUE)

\* rs.handleResetResource
handleResetResource(st, id) ==
    IF st.rss[id].resetting THEN st
    ELSE SendRequest([st EXCEPT !.rss[id].resetting = TRUE], id, TRUE)

\* processResetModel without the loop that marks the keys the snapshot lacks.
processResetModelKeep(st, id, reply) ==
    LET vals == st.heap[st.rss[id].model].m
        p2   == [k \in Keys |->
                    IF reply.model[k] # Absent /\ reply.model[k] = vals[k] THEN Absent
                    ELSE reply.model[k]]
    IN  IF MapLen(p2) = 0 THEN st
        ELSE handleEvent(st, id, NewEvent("change", EncodeChangeEvent(p2)))

\* rs.processResetModel; props is nil when the reply held no model
processResetModel(st, id, reply) ==
    LET vals == st.heap[st.rss[id].model].m
        p1   == [k \in Keys |->
                    IF vals[k] # Absent /\ reply.model[k] = Absent THEN DeleteValue
                    ELSE reply.model[k]]
        p2   == [k \in Keys |->
                    IF p1[k] # Absent /\ vals[k] # Absent /\ p1[k] = vals[k] THEN Absent
                    ELSE p1[k]]
    IN  IF ~reply.isModel /\ MapLen(vals) > 0
        THEN [st EXCEPT !.crashed = TRUE]   \* assignment to entry in nil map
        ELSE IF MapLen(p2) = 0 THEN st
        ELSE handleEvent(st, id, NewEvent("change", EncodeChangeEvent(p2)))

\* for _, r := range events { rs.handleEvent(r) }
RECURSIVE handleEvents(_, _, _, _)
handleEvents(st, id, events, k) ==
    IF k > Len(events) THEN st
    ELSE handleEvents(handleEvent(st, id, events[k]), id, events, k + 1)

\* rs.processResetCollection
processResetCollection(st, id, reply) ==
    handleEvents(st, id, lcs(st.heap[st.rss[id].collection].c, reply.collection), 1)

\* processResetGetResponse generating the delete event for every error.
processResetGetResponseAnyError(st, id, reply) ==
    LET err == DecodeGetResponse(reply) IN
    IF err # NoErr
    THEN handleEvent(st, id, NewEvent("delete", EmptyPayload))
    ELSE IF st.rss[id].state = stateModel THEN processResetModel(st, id, reply)
    ELSE IF st.rss[id].state = stateCollection THEN processResetCollection(st, id, reply)
    ELSE st

\* rs.processResetGetResponse
processResetGetResponse(st, id, reply) ==
    LET err == DecodeGetResponse(reply) IN
    IF err # NoErr
    THEN (IF err = ErrNotFound
          THEN handleEvent(st, id, NewEvent("delete", EmptyPayload))
          ELSE st)
    ELSE IF st.rss[id].state = stateModel THEN processResetModel(st, id, reply)
    ELSE IF st.rss[id].state = stateCollection THEN processResetCollection(st, id, reply)
    ELSE st

\* The work item handleResetResource enqueues when its get is answered.
resetGetResponse(st, id, reply) ==
    processResetGetResponse([st EXCEPT !.rss[id].resetting = FALSE], id, reply)

(***************************************************************************)
(* The EventSubscription's own work items.                                 *)
(***************************************************************************)
\* e.addSubscriber, with the count taken by Cache.Subscribe
addSubscriber(st, s, q) ==
    LET g  == getResourceSubscription([st EXCEPT !.count = @ + 1], q)
        id == g.id
        rs == g.st.rss[id]
        s1 == IF rs.state # stateError
              THEN [g.st EXCEPT !.rss[id].subs = @ \cup {s}]
              ELSE g.st
    IN  IF rs.state = stateSubscribed
        THEN SendRequest([s1 EXCEPT !.rss[id].state = stateRequested], id, FALSE)
        ELSE IF rs.state = stateRequested THEN s1
        ELSE IF rs.state = stateError
        THEN NotifyLoaded(removeCount(s1, 1), {s}, NoRs, rs.err)
        ELSE NotifyLoaded(s1, {s}, id, NoErr)

\* for _, rs := range e.queries { rs.handleEvent(r) }, from the k-th entry on
RECURSIVE eventToQueries(_, _, _)
eventToQueries(st, r, k) ==
    IF k > Len(QOrder) THEN st
    ELSE LET id == st.queries[QOrder[k]]
         IN  eventToQueries(IF id # NoRs THEN handleEvent(st, id, r) ELSE st, r, k + 1)

\* e.handleEvent: the event is applied to base and to each entry of queries
dispatchEvent(st, r) ==
    eventToQueries(IF st.base # NoRs THEN handleEvent(st, st.base, r) ELSE st, r, 1)

\* for _, rs := range e.queries { rs.handleResetResource() }, from the k-th entry on
RECURSIVE resetQueries(_, _)
resetQueries(st, k) ==
    IF k > Len(QOrder) THEN st
    ELSE LET id == st.queries[QOrder[k]]
         IN  resetQueries(IF id # NoRs THEN handleResetResource(st, id) ELSE st, k + 1)

\* e.handleResetResource
dispatchReset(st) ==
    resetQueries(IF st.base # NoRs THEN handleResetResource(st, st.base) ELSE st, 1)

\* rs.handleResetAccess
handleResetAccess(st, id) == NotifyReaccess(st, st.rss[id].subs, id)

\* for _, rs := range e.queries { rs.handleResetAccess() }, from the k-th entry on
RECURSIVE resetAccessQueries(_, _)
resetAccessQueries(st, k) ==
    IF k > Len(QOrder) THEN st
    ELSE LET id == st.queries[QOrder[k]]
         IN  resetAccessQueries(IF id # NoRs THEN handleResetAccess(st, id) ELSE st, k + 1)

\* e.handleResetAccess
dispatchResetAccess(st) ==
    resetAccessQueries(IF st.base # NoRs THEN handleResetAccess(st, st.base) ELSE st, 1)

\* The way rs.handleEvent takes for the event r: "dropped" when it returns
\* before it releases the mutex, "delete" when it calls handleEventDelete,
\* "forward" when it reaches the loop over rs.subs.
EventPath(st, id, r) ==
    LET rs == st.rss[id] IN
    IF rs.state <= stateRequested /\ r.Event # "reaccess" THEN "dropped"
    ELSE IF r.Event = "delete"
    THEN (IF ~rs.resetting THEN "delete" ELSE "dropped")
    ELSE IF r.Event \in {"change", "add", "remove"}
    THEN IF rs.resetting THEN "dropped"
         ELSE LET res == IF r.Event = "change" THEN handleEventChange(st, id, r)
                         ELSE IF r.Event = "add" THEN handleEventAdd(st, id, r)
                         ELSE handleEventRemove(st, id, r)
              IN  IF res.ok THEN "forward" ELSE "dropped"
    ELSE "forward"

\* rs.Unsubscribe
Unsubscribe(st, id, s) ==
    LET s1 == [st EXCEPT !.rss[id].subs = @ \ {s}]
        s2 == IF s1.rss[id].query # "" /\ s1.rss[id].subs = {}
              THEN unregister(s1, id)
              ELSE s1
    IN  removeCount(s2, 1)

(***************************************************************************)
(* What the environment sends: replies of the service and bus events.      *)
(***************************************************************************)
ModelVals == {"v1", "v2"}
ColVals == {"v1", "v2"}
SnapModels == [Keys -> ModelVals \cup {Absent}]
SnapCols == SeqsUpTo(ColVals, MaxCol)
Results(q) == {ModelReply(q, m) : m \in SnapModels} \cup {CollectionReply(q, c) : c \in SnapCols}
Failures == {ErrorReply(e) : e \in Errs} \cup {BadReply}
ChangeProps == [Keys -> ModelVals \cup {Absent, DeleteValue}]
BusEvents ==
    {NewEvent("change", EncodeChangeEvent(p)) : p \in ChangeProps}
    \cup {NewEvent("add", EncodeAddEvent(i, v)) : i \in (-1)..(MaxCol + 1), v \in ColVals}
    \cup {NewEvent("remove", EncodeRemoveEvent(i)) : i \in (-1)..MaxCol}
    \cup {NewEvent(k, BadPayload) : k \in {"change", "add", "remove"}}
    \cup {NewEvent("delete", EmptyPayload), NewEvent("reaccess", EmptyPayload)}

NoEvent == NewEvent("", EmptyPayload)
NoReply == ErrorReply(NoErr)
Last(op, id, s, r, reply) == [op |-> op, rs |-> id, sub |-> s, ev |-> r, reply |-> reply]
NoHeld == [ptr |-> NoPtr, copy |-> EmptyC]

(***************************************************************************)
(* Actions: one per work item of the EventSubscription's queue, and one    *)
(* per reader call.  A work item runs to its end before the next starts.   *)
(***************************************************************************)
LoadedCount(c, s) == Cardinality({i \in 1..Len(c) : c[i].kind = "Loaded" /\ c[i].sub = s})

\* The D a subscriber holds after the callbacks c: the one of its last Loaded.
HandleAfter(c, s, h) ==
    LET I == {i \in 1..Len(c) : c[i].kind = "Loaded" /\ c[i].sub = s /\ c[i].rs # NoRs}
    IN  IF I = {} THEN h ELSE c[CHOOSE i \in I : \A j \in I : j <= i].rs

ColsBounded(st) ==
    \A i \in DOMAIN st.rss :
        st.rss[i].collection # NoPtr => Len(st.heap[st.rss[i].collection].c) <= MaxCol

(***************************************************************************)
(* Garbage.  Between work items the state is kept in a canonical form, as  *)
(* a compacting collector would leave it: a D that nothing can reach any   *)
(* more (no registry entry, no pending reply, no subscriber's handle) is   *)
(* cleared, the container of D number i sits in slot i, a container only   *)
(* a subscriber still holds sits in that subscriber's slot, and every      *)
(* other slot is free.  No work item can tell: it reaches containers and D *)
(* objects only through these pointers.                                    *)
(***************************************************************************)
SubIndex(s) == CHOOSE i \in 1..Len(SubOrder) : SubOrder[i] = s
OwnSlot(i) == i
HeldSlot(s) == RsCap + SubIndex(s)

\* The D objects the program can still reach, given the handles h of the
\* subscribers that have not unsubscribed and the D id of the last work item.
Reachable(st, h, id) ==
    ({st.base} \cup Range(st.queries) \cup Range(st.links)
     \cup {g.rs : g \in BagToSet(st.gets)} \cup Range(h) \cup {id}) \ {NoRs}

Cleared == newResourceSubscription("")

OwnedPtrs(r) == ({r[i].model : i \in DOMAIN r} \cup {r[i].collection : i \in DOMAIN r}) \ {NoPtr}

\* The container D number i points to (it has a model or a collection).
OwnPtr(r, i) == IF r[i].model # NoPtr THEN r[i].model ELSE r[i].collection

Compact(r, hp, hd) ==
    LET n == Len(r)
        owned == OwnedPtrs(r)
        source(p) == IF p <= RsCap
                     THEN (IF p > n THEN NoPtr ELSE OwnPtr(r, p))
                     ELSE IF p <= RsCap + Len(SubOrder)
                     THEN LET q == hd[SubOrder[p - RsCap]].ptr
                          IN  IF q \in owned THEN NoPtr ELSE q
                     ELSE NoPtr
    IN  [rss  |-> [i \in 1..n |->
                     [r[i] EXCEPT !.model = IF @ = NoPtr THEN NoPtr ELSE OwnSlot(i),
                                  !.collection = IF @ = NoPtr THEN NoPtr ELSE OwnSlot(i)]],
         held |-> [s \in Subs |->
                     IF hd[s].ptr = NoPtr THEN hd[s]
                     ELSE IF hd[s].ptr \in owned
                     THEN [hd[s] EXCEPT !.ptr = OwnSlot(CHOOSE i \in 1..n : OwnPtr(r, i) = hd[s].ptr)]
                     ELSE [hd[s] EXCEPT !.ptr = HeldSlot(s)]],
         heap |-> [p \in Ptrs |-> IF source(p) = NoPtr THEN EmptyC ELSE hp[source(p)]]]

\* The state a work item leaves.  h: the subscribers' handles before its
\* callbacks, l: the work item.
Collect(st, h, l) ==
    LET h2  == [s \in Subs |-> HandleAfter(st.cbs, s, h[s])]
        live == Reachable(st, h2, l.rs)
        r2  == [i \in DOMAIN st.rss |-> IF i \in live THEN st.rss[i] ELSE Cleared]
        c   == Compact(r2, st.heap, held)
    IN  [rss |-> c.rss, heap |-> c.heap, held |-> c.held, handle |-> h2]

\* The container a loaded D caches.
Cached(st, i) ==
    IF st.rss[i].state = stateModel THEN st.heap[st.rss[i].model]
    ELSE st.heap[st.rss[i].collection]

\* What a subscriber makes of its replica c on receiving the event r.
ApplyEvent(c, r) ==
    IF r.Event = "change"
    THEN [c EXCEPT !.m = [k \in Keys |->
                            IF r.Changed[k] = Absent THEN c.m[k]
                            ELSE IF r.Changed[k] = DeleteValue THEN Absent
                            ELSE r.Changed[k]]]
    ELSE IF r.Event = "add" /\ r.Idx \in 0..Len(c.c)
    THEN [c EXCEPT !.c = InsertAt(c.c, r.Idx, r.Value)]
    ELSE IF r.Event = "remove" /\ r.Idx \in 0..(Len(c.c) - 1)
    THEN [c EXCEPT !.c = RemoveAt(c.c, r.Idx)]
    ELSE c

RECURSIVE ApplyEvents(_, _, _, _, _)
ApplyEvents(c, cb, s, i, k) ==
    IF k > Len(cb) THEN c
    ELSE ApplyEvents(IF cb[k].kind = "Event" /\ cb[k].sub = s /\ cb[k].rs = i
                     THEN ApplyEvent(c, cb[k].ev) ELSE c,
                     cb, s, i, k + 1)

NoView == [on |-> FALSE, rs |-> NoRs, c |-> EmptyC]

\* The replica of subscriber s after a work item.  It starts as the container
\* cached when handleResetResource sets resetting on the loaded D the
\* subscriber holds, takes every Event that D delivers to the subscriber, and
\* is kept until the work item after the one that cleared resetting.
ViewAfter(s, st) ==
    LET i == handle[s]
        d == rview[s]
    IN  IF /\ i # NoRs /\ ~rss[i].resetting /\ st.rss[i].resetting
           /\ st.rss[i].state > stateRequested /\ s \in st.rss[i].subs
        THEN [on |-> TRUE, rs |-> i, c |-> Cached(st, i)]
        ELSE IF d.on /\ rss[d.rs].resetting /\ s \in st.rss[d.rs].subs
        THEN [d EXCEPT !.c = ApplyEvents(d.c, st.cbs, s, d.rs, 1)]
        ELSE NoView

\* The state a work item leaves becomes the state of the cache.
Install(wst, h, l) ==
    \E st \in {wst} : \E c \in {Collect(st, h, l)} :
        /\ ColsBounded(st)
        /\ rss' = c.rss
        /\ heap' = c.heap
        /\ held' = c.held
        /\ base' = st.base
        /\ queries' = st.queries
        /\ links' = st.links
        /\ count' = st.count
        /\ gets' = st.gets
        /\ crashed' = st.crashed
        /\ cbs' = st.cbs
        /\ loaded' = [s \in Subs |-> loaded[s] + LoadedCount(st.cbs, s)]
        /\ handle' = c.handle
        /\ last' = l
        /\ rview' = [s \in Subs |-> ViewAfter(s, st)]
        /\ UNCHANGED lcsVars

\* A work item run from its start to its end, callbacks included.
Commit(wst, h, l) == Install(wst, h, l) /\ UNCHANGED <<lockVars, svcVars>>

Running == ~crashed /\ lpc = "off"

\* Cache.Subscribe: subscriber s asks for query q
Subscribe(s, q) ==
    /\ Running
    /\ phase[s] = "idle"
    /\ \E st \in {addSubscriber(Cur, s, q)} :
          Commit(st, [handle EXCEPT ![s] = Lookup(st, q)], Last("Subscribe", Lookup(st, q), s, NoEvent, NoReply))
    /\ phase' = [phase EXCEPT ![s] = "subscribed"]

\* rs.Unsubscribe(sub) on the D the subscriber holds
DoUnsubscribe(s) ==
    /\ Running
    /\ phase[s] = "subscribed"
    /\ handle[s] # NoRs
    /\ Commit(Unsubscribe(Cur, handle[s], s), [handle EXCEPT ![s] = NoRs],
              Last("Unsubscribe", handle[s], s, NoEvent, NoReply))
    /\ phase' = [phase EXCEPT ![s] = "unsubscribed"]

\* The reply to the get sent by addSubscriber arrives
GetReply(g, reply) ==
    /\ Running
    /\ BagIn(g, gets) /\ ~g.reset
    /\ Commit(enqueueGetResponse(Answered(Cur, g), g.rs, reply), handle,
              Last("GetReply", g.rs, "", NoEvent, reply))
    /\ UNCHANGED phase

\* The bus delivers an event for the resource
BusEvent(r) ==
    /\ Running
    /\ Commit(dispatchEvent(Cur, r), handle, Last("Event", NoRs, "", r, NoReply))
    /\ UNCHANGED phase

\* The bus reconnected: every D is asked to resync
Reset ==
    /\ Running
    /\ Commit(dispatchReset(Cur), handle, Last("Reset", NoRs, "", NoEvent, NoReply))
    /\ UNCHANGED phase

\* The reply to the get sent by handleResetResource arrives
ResetReply(g, reply) ==
    /\ Running
    /\ BagIn(g, gets) /\ g.reset
    /\ Commit(resetGetResponse(Answered(Cur, g), g.rs, reply), handle,
              Last("ResetReply", g.rs, "", NoEvent, reply))
    /\ UNCHANGED phase

\* rs.GetModel / rs.GetCollection, then rs.Release: the subscriber keeps the
\* container it was handed
GetContainer(s) ==
    /\ Running
    /\ phase[s] = "subscribed" /\ handle[s] # NoRs /\ loaded[s] > 0
    /\ \E p \in {rss[handle[s]].model, rss[handle[s]].collection} \ {NoPtr} :
          \E c \in {Compact(rss, heap, [held EXCEPT ![s] = [ptr |-> p, copy |-> heap[p]]])} :
              heap' = c.heap /\ held' = c.held
    /\ cbs' = <<>>
    /\ last' = Last("GetContainer", handle[s], s, NoEvent, NoReply)
    /\ UNCHANGED <<rss, base, queries, links, count, gets, crashed, phase, handle, loaded, rview, lcsVars>>
    /\ UNCHANGED <<lockVars, svcVars>>

InitCache ==
    /\ rss = <<>>
    /\ base = NoRs
    /\ queries = [q \in QueryStrs |-> NoRs]
    /\ links = [q \in QueryStrs |-> NoRs]
    /\ count = 0
    /\ gets = EmptyBag
    /\ heap = [p \in Ptrs |-> EmptyC]
    /\ crashed = FALSE
    /\ phase = [s \in Subs |-> "idle"]
    /\ handle = [s \in Subs |-> NoRs]
    /\ loaded = [s \in Subs |-> 0]
    /\ held = [s \in Subs |-> NoHeld]
    /\ cbs = <<>>
    /\ last = Last("", NoRs, "", NoEvent, NoReply)
    /\ rview = [s \in Subs |-> NoView]

LcsOff ==
    /\ la = <<>> /\ lb = <<>> /\ lsteps = <<>> /\ lpos = 0 /\ lcur = <<>> /\ lok = TRUE /\ lpc = "off"

NoThread == ""
NoChan == 0
Threads == {"t1", "t2"}

\* No work item is running and no thread is in a call of the cache.
LockOff ==
    /\ mu = NoThread /\ wpc = "idle" /\ wq = <<>> /\ wrd = {} /\ cbpc = "none"
    /\ tpc = [s \in Subs |-> "out"]

\* NewService: not started, no call in progress.
SvcOff ==
    /\ smu = NoThread /\ stopping = FALSE /\ stop = NoChan /\ chans = <<>>
    /\ spc = [x \in Threads |-> "out"]
    /\ sret = [x \in Threads |-> "none"]
    /\ scalls = [x \in Threads |-> 0]
    /\ mqStarts = 0 /\ httpStarts = 0

Init == InitCache /\ LcsOff /\ LockOff /\ SvcOff

\* Subscribers are interchangeable: they arrive in the order of SubOrder.
Arrives(s) == \A i, j \in 1..Len(SubOrder) : (i < j /\ SubOrder[j] = s) => phase[SubOrder[i]] # "idle"

\* Whether the reply can be processed with at most max D objects.
Fits(reply, max) == DecodeGetResponse(reply) = NoErr => CanResolve(reply.query, max)

M1 == [k \in Keys |-> IF k = "k1" THEN "v1" ELSE Absent]
M2 == [k \in Keys |-> IF k = "k1" THEN "v2" ELSE Absent]

(***************************************************************************)
(* Spec: two subscribers, any queries, replies that normalize to any query *)
(* or fail, and bus events, in every order.  The service answers with one  *)
(* model; the bus sends a change, a delete and a reaccess.                 *)
(***************************************************************************)
SpecSubs == {"s1", "s2"}
SpecReplies ==
    {ModelReply(q, M1) : q \in Queries} \cup {ErrorReply(ErrTimeout), BadReply}
SpecEvents ==
    {NewEvent("change", EncodeChangeEvent(M2)),
     NewEvent("delete", EmptyPayload),
     NewEvent("reaccess", EmptyPayload)}

Next ==
    \/ \E s \in SpecSubs, q \in Queries : Arrives(s) /\ CanResolve(q, MaxRs) /\ Subscribe(s, q)
    \/ \E s \in SpecSubs : DoUnsubscribe(s)
    \/ \E g \in BagToSet(gets), reply \in SpecReplies : Fits(reply, MaxRs) /\ GetReply(g, reply)
    \/ \E r \in SpecEvents : BusEvent(r)

Spec == Init /\ [][Next]_vars

(***************************************************************************)
(* Properties of the load protocol, under Spec.                            *)
(***************************************************************************)
\* C1: every subscriber gets Loaded exactly once: never a second time (also
\* not when it was copied to the canonical D by a normalized reply and the
\* canonical D's own reply is processed afterwards), and once every get has
\* been answered no subscriber is still waiting for it.
C1_LoadedExactlyOnce ==
    \A s \in Subs :
        /\ loaded[s] <= 1
        /\ (phase[s] = "subscribed" /\ gets = EmptyBag) => loaded[s] = 1

\* Whether the i-th callback of the last work item is an Event for a
\* subscriber that had no Loaded before it.
EventBeforeLoaded(i) ==
    /\ cbs[i].kind = "Event"
    /\ loaded[cbs[i].sub] = LoadedCount(cbs, cbs[i].sub)
    /\ \A j \in 1..(i - 1) : ~(cbs[j].kind = "Loaded" /\ cbs[j].sub = cbs[i].sub)

\* C2: no subscriber gets an Event, of any kind, reaccess included, before
\* its Loaded.
C2_LoadedBeforeEvent == \A i \in 1..Len(cbs) : ~EventBeforeLoaded(i)

\* C2 for the events the cache applies (change, delete), leaving out reaccess.
C2_LoadedBeforeCacheEvent ==
    \A i \in 1..Len(cbs) : cbs[i].ev.Event # "reaccess" => ~EventBeforeLoaded(i)

(***************************************************************************)
(* ResetSpec: reconnects.  Two subscribers of the resource without query   *)
(* and of one query; the service does not normalize, and answers a reset   *)
(* with the other model, with system.notFound or with another error.       *)
(***************************************************************************)
ResetQueries == {"", "a"}
ResetReplies(q) == {ModelReply(q, M1), ModelReply(q, M2), ErrorReply(ErrNotFound), ErrorReply(ErrTimeout)}

ResetNext ==
    \/ \E s \in SpecSubs, q \in ResetQueries : Arrives(s) /\ CanResolve(q, MaxRs) /\ Subscribe(s, q)
    \/ \E s \in SpecSubs : DoUnsubscribe(s)
    \/ \E g \in BagToSet(gets) : \E reply \in ResetReplies(rss[g.rs].query) : GetReply(g, reply)
    \/ \E r \in SpecEvents : BusEvent(r)
    \/ Reset
    \/ \E g \in BagToSet(gets) : \E reply \in ResetReplies(rss[g.rs].query) : ResetReply(g, reply)

ResetSpec == Init /\ [][ResetNext]_vars

\* The work item of this step processes a failed reply to an initial get.
GetFailed == last'.op = "GetReply" /\ DecodeGetResponse(last'.reply) # NoErr

\* C9: when the initial get of a D fails, the D ends in state Error with the
\* error stored and no subscribers, no entry of base, queries or links refers
\* to it, every subscriber it had gets Loaded(nil, err) with that error, and
\* nobody gets Loaded with a resource.
C9_FailedGet ==
    [][GetFailed =>
        LET i   == last'.rs
            err == DecodeGetResponse(last'.reply)
            W   == rss[i].subs
        IN  /\ rss'[i].state = stateError
            /\ rss'[i].err = err
            /\ rss'[i].subs = {}
            /\ base' # i
            /\ \A q \in QueryStrs : queries'[q] # i /\ links'[q] # i
            /\ Len(cbs') = Cardinality(W)
            /\ \A s \in W : \E k \in 1..Len(cbs') : cbs'[k] = CbLoaded(s, NoRs, err)
            /\ \A k \in 1..Len(cbs') : cbs'[k].kind = "Loaded" /\ cbs'[k].rs = NoRs]_vars

\* An undecodable reply failed a D on which two subscribers were waiting.
C9_Witness ==
    /\ last.op = "GetReply" /\ last.reply.bad
    /\ rss[last.rs].state = stateError
    /\ \A s \in SpecSubs : \E k \in 1..Len(cbs) : cbs[k] = CbLoaded(s, NoRs, ErrDecode)

InitialGets(i) == CopiesIn([rs |-> i, reset |-> FALSE], gets)
ResetGets(i) == CopiesIn([rs |-> i, reset |-> TRUE], gets)

\* C3: at most one get is in flight per D, the initial get and the gets of
\* handleResetResource counted together.
C3_OneGetPerRs == \A i \in DOMAIN rss : InitialGets(i) + ResetGets(i) <= 1

\* C3, amended: per D at most one initial get is in flight, and one get of
\* handleResetResource exactly while the D is resetting; the two can overlap.
C3_OneGetOfEachKind ==
    \A i \in DOMAIN rss :
        /\ InitialGets(i) <= 1
        /\ ResetGets(i) = IF rss[i].resetting THEN 1 ELSE 0

\* A reconnect reached a D whose initial get is unanswered: both are in flight.
C3_Witness ==
    /\ last.op = "Reset"
    /\ \E i \in DOMAIN rss : InitialGets(i) = 1 /\ ResetGets(i) = 1 /\ rss[i].resetting

(***************************************************************************)
(* LcsSpec: the diff engine on every pair of sequences of at most MaxLen   *)
(* values, and its events applied one by one the way handleEventAdd and    *)
(* handleEventRemove apply them to a collection.                           *)
(***************************************************************************)
\* [ok, col]: the index checks and the splicing of handleEventAdd/Remove
ApplyStep(col, r) ==
    IF r.Event = "add"
    THEN LET params == DecodeAddEvent(r.Payload)
         IN  IF params.err \/ params.Idx < 0 \/ params.Idx > Len(col)
             THEN [ok |-> FALSE, col |-> col]
             ELSE [ok |-> TRUE, col |-> InsertAt(col, params.Idx, params.Value)]
    ELSE LET params == DecodeRemoveEvent(r.Payload)
         IN  IF r.Event # "remove" \/ params.err \/ params.Idx < 0 \/ params.Idx >= Len(col)
             THEN [ok |-> FALSE, col |-> col]
             ELSE [ok |-> TRUE, col |-> RemoveAt(col, params.Idx)]

LcsInputs == SeqsUpTo(Vals, MaxLen)

LcsInit ==
    /\ InitCache
    /\ la \in LcsInputs /\ lb \in LcsInputs
    /\ lsteps = <<>> /\ lpos = 0 /\ lcur = la /\ lok = TRUE /\ lpc = "start"
    /\ LockOff /\ SvcOff

LcsRun ==
    /\ lpc = "start"
    /\ lsteps' = lcs(la, lb)
    /\ lpc' = "apply"
    /\ UNCHANGED <<la, lb, lpos, lcur, lok, cacheVars, subVars, lockVars, svcVars>>

LcsApply ==
    /\ lpc = "apply" /\ lpos < Len(lsteps)
    /\ \E res \in {ApplyStep(lcur, lsteps[lpos + 1])} :
          lcur' = res.col /\ lok' = (lok /\ res.ok)
    /\ lpos' = lpos + 1
    /\ UNCHANGED <<la, lb, lsteps, lpc, cacheVars, subVars, lockVars, svcVars>>

LcsDone ==
    /\ lpc = "apply" /\ lpos = Len(lsteps)
    /\ lpc' = "done"
    /\ UNCHANGED <<la, lb, lsteps, lpos, lcur, lok, cacheVars, subVars, lockVars, svcVars>>

LcsNext == LcsRun \/ LcsApply \/ LcsDone

LcsSpec == LcsInit /\ [][LcsNext]_vars

\* The length of a longest common subsequence of a and b, by its definition.
RECURSIVE LcsLen(_, _)
LcsLen(a, b) ==
    IF a = <<>> \/ b = <<>> THEN 0
    ELSE IF Head(a) = Head(b) THEN 1 + LcsLen(Tail(a), Tail(b))
    ELSE LET x == LcsLen(Tail(a), b)
             y == LcsLen(a, Tail(b))
         IN  IF x > y THEN x ELSE y

\* C5: the events lcs(a, b) returns, applied to a in order, give b, and each
\* finds its index in range of the collection as mutated so far.
C5_LcsAppliesToB == lpc = "done" => (lcur = lb /\ lok)

\* A run that applied removes and adds.
C5_Witness ==
    /\ lpc = "done" /\ la # lb
    /\ \E i, j \in 1..Len(lsteps) : lsteps[i].Event = "remove" /\ lsteps[j].Event = "add"

\* C6: lcs(a, b) returns |a| + |b| - 2*|LCS(a, b)| events, and none when a = b.
C6_LcsMinimal ==
    lpc \in {"apply", "done"} =>
        /\ Len(lsteps) = Len(la) + Len(lb) - 2 * LcsLen(la, lb)
        /\ la = lb => lsteps = <<>>

\* A run whose sequences share a subsequence that is neither a prefix nor a suffix.
C6_Witness ==
    /\ lpc = "done" /\ la # lb /\ Len(la) = MaxLen
    /\ la[1] # lb[1] /\ la[Len(la)] # lb[Len(lb)] /\ LcsLen(la, lb) > 0

(***************************************************************************)
(* NormSpec: a service that normalizes consistently.  The queries "" and   *)
(* "a" both have the canonical form "b"; three subscribers, more D         *)
(* objects, replies that succeed or time out, no bus events.               *)
(***************************************************************************)
Norm == [q \in Queries |-> "b"]
NormReplies(q) == {ModelReply(Norm[q], M1), ErrorReply(ErrTimeout)}

NormNext ==
    \/ \E s \in Subs, q \in Queries : Arrives(s) /\ CanResolve(q, MaxRsDeep) /\ Subscribe(s, q)
    \/ \E s \in Subs : DoUnsubscribe(s)
    \/ \E g \in BagToSet(gets) : \E reply \in NormReplies(rss[g.rs].query) :
          Fits(reply, MaxRsDeep) /\ GetReply(g, reply)

NormSpec == Init /\ [][NormNext]_vars

\* The work item of this step processes a successful reply to the initial
\* get of a D whose query is not the query the reply names.
GetNormalized ==
    /\ last'.op = "GetReply"
    /\ DecodeGetResponse(last'.reply) = NoErr
    /\ last'.reply.query # rss[last'.rs].query

\* The D a query resolves to after the step.
LookupAfter(q) ==
    IF q = "" THEN base' ELSE IF queries'[q] # NoRs THEN queries'[q] ELSE links'[q]

\* C10: after a normalized reply the requested query is no entry of queries
\* and resolves, through links or base, to the canonical D; no other D with
\* the canonical query holds cached state for subscribers; the subscribers
\* of the requesting D are subscribers of the canonical D; and the work item
\* calls Loaded on each of them with the canonical D.
C10_Normalized ==
    [][GetNormalized =>
        LET i  == last'.rs
            q  == rss[i].query
            cq == last'.reply.query
            n  == LookupAfter(q)
        IN  /\ q # "" => queries'[q] = NoRs
            /\ n # NoRs /\ rss'[n].query = cq /\ LookupAfter(cq) = n
            /\ \A j \in DOMAIN rss' :
                  (rss'[j].query = cq /\ rss'[j].state > stateRequested /\ rss'[j].subs # {})
                      => j = n
            /\ rss[i].subs \subseteq rss'[n].subs
            /\ Len(cbs') = Cardinality(rss[i].subs)
            /\ \A s \in rss[i].subs : \E k \in 1..Len(cbs') : cbs'[k] = CbLoaded(s, n, NoErr)]_vars

(***************************************************************************)
(* DataSpec: one resource without query, every model and collection the    *)
(* value sets allow, every event payload.                                  *)
(***************************************************************************)
DataSubs == {"s1"}
DataReplies == Results("") \cup Failures

DataNext ==
    \/ \E s \in DataSubs : CanResolve("", MaxRs) /\ Subscribe(s, "")
    \/ \E s \in DataSubs : DoUnsubscribe(s)
    \/ \E g \in BagToSet(gets), reply \in DataReplies : GetReply(g, reply)
    \/ \E r \in BusEvents : BusEvent(r)
    \/ Reset
    \/ \E g \in BagToSet(gets), reply \in DataReplies : ResetReply(g, reply)
    \/ \E s \in DataSubs : GetContainer(s)

DataSpec == Init /\ [][DataNext]_vars

\* C7: a container a subscriber was handed still has the contents it had
\* then, whatever change, add, remove, delete and reset was applied to the
\* D since: each of them installed a new container.
C7_ContainersImmutable ==
    \A s \in Subs : held[s].ptr # NoPtr => heap[held[s].ptr] = held[s].copy

\* A subscriber holds a collection that the D has replaced since, by a bus
\* event or by the events of a reset.
C7_Witness ==
    /\ held["s1"].ptr # NoPtr
    /\ last.op \in {"Event", "ResetReply"}
    /\ base # NoRs /\ rss[base].state = stateCollection
    /\ rss[base].collection # held["s1"].ptr
    /\ heap[rss[base].collection] # held["s1"].copy

\* The entries of the properties P that take effect on the map M.
Effective(P, M) ==
    [k \in Keys |->
        IF P[k] = DeleteValue /\ M[k] = Absent THEN Absent
        ELSE IF P[k] = M[k] THEN Absent
        ELSE P[k]]

\* M with every non-Delete entry of P set and every Delete-marked key removed.
Updated(P, M) ==
    [k \in Keys |-> IF P[k] = Absent THEN M[k] ELSE IF P[k] = DeleteValue THEN Absent ELSE P[k]]

\* The work item of this step applies a decodable change event to the Model
\* D registered as base, which is not resetting.
ChangeApplied ==
    /\ last'.op = "Event" /\ last'.ev.Event = "change" /\ last'.ev.Payload.ok
    /\ base # NoRs /\ rss[base].state = stateModel /\ ~rss[base].resetting

\* C8: a change event with properties P on a Model D with map M leaves the D
\* with M updated by P; each subscriber gets one Event whose Changed is the
\* entries of P that take effect and whose OldValues is M; when no entry
\* takes effect nobody is notified and the cached model stays as it is.
C8_ChangeSemantics ==
    [][ChangeApplied =>
        LET M == heap[rss[base].model].m
            P == DecodeChangeEvent(last'.ev.Payload).props
            E == Effective(P, M)
        IN  /\ heap'[rss'[base].model].m = Updated(P, M)
            /\ IF MapLen(E) = 0
               THEN cbs' = <<>> /\ heap'[rss'[base].model].m = M
               ELSE /\ Len(cbs') = Cardinality(rss[base].subs)
                    /\ \A s \in rss[base].subs : \E i \in 1..Len(cbs') :
                          /\ cbs'[i].kind = "Event" /\ cbs'[i].sub = s
                          /\ cbs'[i].ev.Changed = E /\ cbs'[i].ev.OldValues = M]_vars

\* A change was forwarded with one entry dropped and a Delete that took effect.
C8_Witness ==
    /\ last.op = "Event" /\ last.ev.Event = "change"
    /\ \E i \in 1..Len(cbs), k1, k2 \in Keys :
          /\ cbs[i].ev.Changed[k1] = DeleteValue
          /\ cbs[i].ev.Changed[k2] = Absent
          /\ last.ev.Payload.props[k2] # Absent

\* A change none of whose entries took effect reached a Model D with a subscriber.
C8_WitnessNoop ==
    /\ last.op = "Event" /\ last.ev.Event = "change" /\ last.ev.Payload.ok
    /\ MapLen(last.ev.Payload.props) > 0
    /\ cbs = <<>>
    /\ base # NoRs /\ rss[base].state = stateModel /\ ~rss[base].resetting /\ rss[base].subs # {}

(***************************************************************************)
(* ConvSpec: reconnects of one resource without query, with two            *)
(* subscribers, every snapshot the value sets allow, and one bus event of  *)
(* each kind.                                                              *)
(***************************************************************************)
ConvReplies == Results("") \cup {ErrorReply(ErrNotFound)}
ConvEvents ==
    {NewEvent("change", EncodeChangeEvent(M2)),
     NewEvent("add", EncodeAddEvent(0, "v1")),
     NewEvent("remove", EncodeRemoveEvent(0)),
     NewEvent("delete", EmptyPayload),
     NewEvent("reaccess", EmptyPayload)}

ConvNext ==
    \/ \E s \in SpecSubs : Arrives(s) /\ CanResolve("", MaxRs) /\ Subscribe(s, "")
    \/ \E s \in SpecSubs : DoUnsubscribe(s)
    \/ \E g \in BagToSet(gets), reply \in ConvReplies : GetReply(g, reply)
    \/ \E r \in ConvEvents : BusEvent(r)
    \/ Reset
    \/ \E g \in BagToSet(gets), reply \in ConvReplies : ResetReply(g, reply)

ConvSpec == Init /\ [][ConvNext]_vars

\* The container a get reply describes.
Snapshot(reply) ==
    IF reply.isModel THEN [m |-> reply.model, c |-> <<>>]
    ELSE [m |-> EmptyMap, c |-> reply.collection]

\* The last work item processed the reply to a reset get of a loaded D, and
\* the reply held a snapshot of the kind the D caches.
ResetCompleted ==
    /\ last.op = "ResetReply"
    /\ DecodeGetResponse(last.reply) = NoErr
    /\ rss[last.rs].state > stateRequested
    /\ (rss[last.rs].state = stateModel) = last.reply.isModel

\* C4: when the reset of a loaded D has completed, the D caches the snapshot
\* of the reply, and a subscriber that applied the events delivered to it
\* since the reset began to the container cached at that time has the
\* snapshot too, whatever bus events came in between.
C4_ResetConverges ==
    ResetCompleted =>
        /\ Cached(Cur, last.rs) = Snapshot(last.reply)
        /\ \A s \in Subs :
              (rview[s].on /\ rview[s].rs = last.rs) => rview[s].c = Snapshot(last.reply)

\* A reset of a collection completed with a remove and an add delivered to a
\* subscriber that was there when it began.
C4_Witness ==
    /\ ResetCompleted
    /\ rview["s1"].on /\ rview["s1"].rs = last.rs
    /\ \E i, j \in 1..Len(cbs) :
          /\ cbs[i].sub = "s1" /\ cbs[i].ev.Event = "remove"
          /\ cbs[j].sub = "s1" /\ cbs[j].ev.Event = "add"

\* A reset of a model completed with a change that removes a key.
C4_WitnessModel ==
    /\ ResetCompleted
    /\ rview["s1"].on /\ rview["s1"].rs = last.rs
    /\ \E i \in 1..Len(cbs), k \in Keys :
          cbs[i].sub = "s1" /\ cbs[i].ev.Event = "change" /\ cbs[i].ev.Changed[k] = DeleteValue

(***************************************************************************)
(* Deletes, under ResetSpec.                                               *)
(***************************************************************************)
\* The D objects that base, queries or links refer to, before and after a step.
Registered == ({base} \cup Range(queries) \cup Range(links)) \ {NoRs}
RegisteredAfter == ({base'} \cup Range(queries') \cup Range(links')) \ {NoRs}

\* The callbacks of the work item of this step that hand subscriber s an
\* Event of D number i.
EventsFrom(i, s) ==
    {k \in 1..Len(cbs') : cbs'[k].kind = "Event" /\ cbs'[k].rs = i /\ cbs'[k].sub = s}

\* The work item of this step applies a delete event of the bus to D number i.
DeleteApplied(i) ==
    /\ last'.op = "Event" /\ last'.ev.Event = "delete"
    /\ (i = base \/ i \in Range(queries))
    /\ rss[i].state > stateRequested /\ ~rss[i].resetting

\* A D that was loaded and has been left without subscribers and without an
\* entry in base, queries and links, as a delete leaves it.
Dropped(i) == rss[i].state > stateRequested /\ rss[i].subs = {} /\ i \notin Registered

\* C11: a delete applied to a loaded D hands every subscriber of the D the
\* delete event once and leaves the D without subscribers and unregistered;
\* and a D left that way stays that way and hands no Event to anyone,
\* whatever work item runs.
C11_DeleteIsFinal ==
    [][\A i \in DOMAIN rss :
          /\ DeleteApplied(i) =>
                /\ \A s \in rss[i].subs :
                      /\ Cardinality(EventsFrom(i, s)) = 1
                      /\ \A k \in EventsFrom(i, s) : cbs'[k].ev.Event = "delete"
                /\ \A s \in Subs \ rss[i].subs : EventsFrom(i, s) = {}
                /\ rss'[i].subs = {}
                /\ i \notin RegisteredAfter
          /\ Dropped(i) =>
                /\ rss'[i].subs = {}
                /\ i \notin RegisteredAfter
                /\ \A s \in Subs : EventsFrom(i, s) = {}]_vars

\* A delete reached a loaded D with two subscribers, and both were told.
C11_Witness ==
    /\ last.op = "Event" /\ last.ev.Event = "delete"
    /\ \E i \in DOMAIN rss :
          /\ Dropped(i)
          /\ \A s \in SpecSubs : \E k \in 1..Len(cbs) : cbs[k] = CbEvent(s, i, last.ev)

\* After a delete the resource was loaded again by a new D, and an event
\* reached that D while a subscriber still holds the deleted one.
C11_WitnessLater ==
    /\ last.op = "Event" /\ last.ev.Event = "change"
    /\ \E s \in SpecSubs :
          /\ handle[s] # NoRs /\ Dropped(handle[s]) /\ phase[s] = "subscribed"
          /\ \E k \in 1..Len(cbs) : cbs[k].kind = "Event" /\ cbs[k].rs # handle[s]

(***************************************************************************)
(* Adds and removes, under DataSpec.                                       *)
(***************************************************************************)
\* The work item of this step applies a decodable event of the given kind to
\* the Collection D registered as base, which is not resetting.
SpliceApplied(kind) ==
    /\ last'.op = "Event" /\ last'.ev.Event = kind /\ last'.ev.Payload.ok
    /\ base # NoRs /\ rss[base].state = stateCollection /\ ~rss[base].resetting

\* Every subscriber the D had gets one Event of the step, stamped idx and v.
ForwardedStamped(idx, v) ==
    /\ Len(cbs') = Cardinality(rss[base].subs)
    /\ \A s \in rss[base].subs : \E k \in 1..Len(cbs') :
          /\ cbs'[k].kind = "Event" /\ cbs'[k].sub = s
          /\ cbs'[k].ev.Event = last'.ev.Event
          /\ cbs'[k].ev.Idx = idx /\ cbs'[k].ev.Value = v

\* C12: on a Collection D of length len, an add with idx outside [0, len]
\* and a remove with idx outside [0, len) change nothing and notify nobody;
\* an add inside gives the old sequence with the value at idx, len+1 long; a
\* remove inside gives the old sequence without the element at idx, len-1
\* long, and the forwarded event carries the removed value.
C12_IndexBounds ==
    [][LET old == heap[rss[base].collection].c
           new == heap'[rss'[base].collection].c
           idx == last'.ev.Payload.idx
           len == Len(old)
       IN  /\ SpliceApplied("add") =>
                 IF idx >= 0 /\ idx <= len
                 THEN /\ Len(new) = len + 1
                      /\ new[idx + 1] = last'.ev.Payload.value
                      /\ \A p \in 1..len : new[IF p <= idx THEN p ELSE p + 1] = old[p]
                      /\ ForwardedStamped(idx, last'.ev.Payload.value)
                 ELSE new = old /\ cbs' = <<>>
           /\ SpliceApplied("remove") =>
                 IF idx >= 0 /\ idx < len
                 THEN /\ Len(new) = len - 1
                      /\ \A p \in 1..(len - 1) : new[p] = old[IF p <= idx THEN p ELSE p + 1]
                      /\ ForwardedStamped(idx, old[idx + 1])
                 ELSE new = old /\ cbs' = <<>>]_vars

\* The second element of a collection was removed and forwarded with its value.
C12_Witness ==
    /\ last.op = "Event" /\ last.ev.Event = "remove"
    /\ \E k \in 1..Len(cbs) : cbs[k].ev.Idx = 1 /\ cbs[k].ev.Value \in ColVals
    /\ base # NoRs /\ rss[base].state = stateCollection
    /\ Len(heap[rss[base].collection].c) = 1

\* An add one past the end of a collection with a subscriber was dropped.
C12_WitnessDropped ==
    /\ last.op = "Event" /\ last.ev.Event = "add" /\ last.ev.Payload.ok
    /\ base # NoRs /\ rss[base].state = stateCollection /\ ~rss[base].resetting
    /\ rss[base].subs # {}
    /\ last.ev.Payload.idx = Len(heap[rss[base].collection].c) + 1
    /\ cbs = <<>>

\* The work item of this step dispatches a delete event of the bus to D
\* number i, which is loaded and waits for the reply to its reset get.
DeleteWhileResetting(i) ==
    /\ last'.op = "Event" /\ last'.ev.Event = "delete"
    /\ (i = base \/ i \in Range(queries))
    /\ rss[i].state > stateRequested /\ rss[i].resetting

\* C13: a delete that reaches a loaded D while it is resetting applies as it
\* does otherwise: every subscriber of the D gets the delete once, and the D
\* is left without subscribers and unregistered.
C13_DeleteWhileResetting ==
    [][\A i \in DOMAIN rss :
          DeleteWhileResetting(i) =>
              /\ \A s \in rss[i].subs :
                    /\ Cardinality(EventsFrom(i, s)) = 1
                    /\ \A k \in EventsFrom(i, s) : cbs'[k].ev.Event = "delete"
              /\ rss'[i].subs = {}
              /\ i \notin RegisteredAfter]_vars

(***************************************************************************)
(* Replies to reset gets, under ResetSpec.                                 *)
(***************************************************************************)
\* The work item of this step processes the reply to a reset get of a loaded D.
ResetAnswered == last'.op = "ResetReply" /\ rss[last'.rs].state > stateRequested

\* C14: the reply to a reset get of a loaded D clears resetting; with
\* system.notFound every subscriber of the D gets a delete event once, and
\* the D is left without subscribers and unregistered, its query resolving
\* to no D (so that the next subscribe creates one); with any other error
\* the D, its container and the registry stay as they were and no callback
\* is made.
C14_ResetReplyErrors ==
    [][ResetAnswered =>
        LET i   == last'.rs
            err == DecodeGetResponse(last'.reply)
        IN  /\ ~rss'[i].resetting
            /\ err = ErrNotFound =>
                  /\ \A s \in rss[i].subs :
                        /\ Cardinality(EventsFrom(i, s)) = 1
                        /\ \A k \in EventsFrom(i, s) : cbs'[k].ev.Event = "delete"
                  /\ Len(cbs') = Cardinality(rss[i].subs)
                  /\ rss'[i].subs = {}
                  /\ i \notin RegisteredAfter
                  /\ LookupAfter(rss[i].query) = NoRs
            /\ err \notin {NoErr, ErrNotFound} =>
                  /\ cbs' = <<>>
                  /\ base' = base /\ queries' = queries /\ links' = links
                  /\ count' = count
                  /\ i \in Registered =>
                        /\ rss'[i] = [rss[i] EXCEPT !.resetting = FALSE]
                        /\ heap'[OwnPtr(rss', i)] = heap[OwnPtr(rss, i)]]_vars

\* A reset get was answered with system.notFound, and the two subscribers of
\* the D were handed the delete.
C14_Witness ==
    /\ last.op = "ResetReply" /\ DecodeGetResponse(last.reply) = ErrNotFound
    /\ Dropped(last.rs)
    /\ \A s \in SpecSubs : \E k \in 1..Len(cbs) :
          cbs[k].kind = "Event" /\ cbs[k].sub = s /\ cbs[k].rs = last.rs /\ cbs[k].ev.Event = "delete"

\* A reset get of a D with a subscriber failed with another error.
C14_WitnessOther ==
    /\ last.op = "ResetReply" /\ DecodeGetResponse(last.reply) = ErrTimeout
    /\ rss[last.rs].state > stateRequested /\ rss[last.rs].subs # {}
    /\ last.rs \in Registered

\* After a delete, of the bus or synthetic, a subscribe for the same query
\* created a new D and sent its get.
C14_WitnessFresh ==
    /\ last.op = "Subscribe"
    /\ InitialGets(last.rs) = 1
    /\ \E i \in DOMAIN rss :
          i # last.rs /\ Dropped(i) /\ rss[i].query = rss[last.rs].query

(***************************************************************************)
(* Events and snapshots of the wrong type, under DataSpec.                 *)
(***************************************************************************)
\* The work item of this step applies a bus event to the loaded D registered
\* as base, and the event is of a kind the type the D caches does not take.
MistypedEvent ==
    /\ last'.op = "Event" /\ base # NoRs
    /\ \/ rss[base].state = stateModel /\ last'.ev.Event \in {"add", "remove"}
       \/ rss[base].state = stateCollection /\ last'.ev.Event = "change"

\* C17, the events: a mis-typed event leaves the D and its container as they
\* were and makes no callback.
C17_MistypedDropped ==
    [][MistypedEvent =>
        /\ cbs' = <<>>
        /\ rss'[base] = rss[base]
        /\ heap'[OwnPtr(rss', base)] = heap[OwnPtr(rss, base)]]_vars

\* C17: no bus event and no reply to a reset get makes a work item panic,
\* whatever the type of the event or of the snapshot in the reply.
C17_NeverCrashes == ~crashed

(***************************************************************************)
(* The subscriber refcount, under Spec.                                    *)
(***************************************************************************)
\* The subscribers some D has in its subscriber set.
LiveSubs == UNION {rss[i].subs : i \in DOMAIN rss}

\* C18: after every work item the refcount is the number of live
\* subscribers, and it is never negative.
C18_CountIsLiveSubs == count >= 0 /\ count = Cardinality(LiveSubs)

\* C18 for the runs in which no get has failed: the refcount is never
\* negative.
C18_CountAfterDelete ==
    (\A i \in DOMAIN rss : rss[i].state # stateError) => count >= 0

(***************************************************************************)
(* The registry, under Spec.                                               *)
(***************************************************************************)
\* The work item of this step may take D number i out of the registry: it
\* processes the reply to the D's own get, an Unsubscribe on the D, or a
\* delete event.
MayLeave(i) ==
    \/ last'.op \in {"GetReply", "ResetReply", "Unsubscribe"} /\ last'.rs = i
    \/ last'.op = "Event" /\ last'.ev.Event = "delete"

\* The work item of this step is one that calls unregister: an Unsubscribe,
\* the reply to a failed get, or one that applies a delete.
Unregisters ==
    \/ last'.op \in {"Unsubscribe", "Event", "ResetReply"}
    \/ GetFailed

\* C19: a work item that calls unregister takes out of base, queries and
\* links only entries that refer to the D it unregisters; so a registered D
\* with a subscriber, in state Requested, Model or Collection, stays
\* registered when the get of another D fails or another D is unsubscribed.
C19_UnregisterOwnEntries ==
    [][Unregisters =>
        /\ \A q \in QueryStrs :
              /\ (queries[q] # NoRs /\ queries'[q] = NoRs) => MayLeave(queries[q])
              /\ (links[q] # NoRs /\ links'[q] = NoRs) => MayLeave(links[q])
        /\ (base # NoRs /\ base' = NoRs) => MayLeave(base)
        /\ \A i \in Registered :
              (rss[i].subs # {} /\ rss[i].state >= stateRequested /\ ~MayLeave(i))
                  => i \in RegisteredAfter]_vars

(***************************************************************************)
(* SvcSpec: the Service (server package).  Threads call Start and Stop in  *)
(* every order and interleaving; startMQClient succeeds or fails.  spc is  *)
(* "out" between calls, and otherwise names the line the thread is at.     *)
(***************************************************************************)
ErrStopping == "server is stopping"
ErrMQ == "mq error"
RetNil == "nil"
NewChan == [sent |-> 0, closed |-> FALSE]

\* A thread calls Start: err = s.start()
Start(x) ==
    /\ spc[x] = "out" /\ scalls[x] < MaxCalls
    /\ spc' = [spc EXCEPT ![x] = "start"]
    /\ scalls' = [scalls EXCEPT ![x] = @ + 1]
    /\ UNCHANGED <<smu, stopping, stop, chans, sret, mqStarts, httpStarts>>

\* start: s.mu.Lock()
startLock(x) ==
    /\ spc[x] = "start" /\ smu = NoThread
    /\ smu' = x
    /\ spc' = [spc EXCEPT ![x] = "started"]
    /\ UNCHANGED <<stopping, stop, chans, sret, scalls, mqStarts, httpStarts>>

\* start, from its first test to the deferred Unlock; mqerr is what
\* startMQClient returns if it is called.  When start returns an error,
\* Start goes on to call s.Stop(err).
start(x, mqerr) ==
    /\ spc[x] = "started" /\ smu = x
    /\ smu' = NoThread
    /\ IF stop # NoChan
       THEN /\ sret' = [sret EXCEPT ![x] = RetNil]
            /\ spc' = [spc EXCEPT ![x] = "out"]
            /\ UNCHANGED <<stop, chans, mqStarts, httpStarts>>
       ELSE IF stopping
       THEN /\ sret' = [sret EXCEPT ![x] = ErrStopping]
            /\ spc' = [spc EXCEPT ![x] = "stop"]
            /\ UNCHANGED <<stop, chans, mqStarts, httpStarts>>
       ELSE /\ chans' = Append(chans, NewChan)
            /\ stop' = Len(chans) + 1
            /\ mqStarts' = mqStarts + 1
            /\ IF mqerr
               THEN /\ sret' = [sret EXCEPT ![x] = ErrMQ]
                    /\ spc' = [spc EXCEPT ![x] = "stop"]
                    /\ UNCHANGED httpStarts
               ELSE /\ httpStarts' = httpStarts + 1
                    /\ sret' = [sret EXCEPT ![x] = RetNil]
                    /\ spc' = [spc EXCEPT ![x] = "out"]
    /\ UNCHANGED <<stopping, scalls>>

\* A thread calls Stop
Stop(x) ==
    /\ spc[x] = "out" /\ scalls[x] < MaxCalls
    /\ spc' = [spc EXCEPT ![x] = "stop"]
    /\ scalls' = [scalls EXCEPT ![x] = @ + 1]
    /\ UNCHANGED <<smu, stopping, stop, chans, sret, mqStarts, httpStarts>>

\* Stop: s.mu.Lock()
StopLock(x) ==
    /\ spc[x] = "stop" /\ smu = NoThread
    /\ smu' = x
    /\ spc' = [spc EXCEPT ![x] = "stoptest"]
    /\ UNCHANGED <<stopping, stop, chans, sret, scalls, mqStarts, httpStarts>>

\* Stop: if s.stop == nil || s.stopping { return }; s.stopping = true
StopEnter(x) ==
    /\ spc[x] = "stoptest" /\ smu = x
    /\ smu' = NoThread
    /\ IF stop = NoChan \/ stopping
       THEN spc' = [spc EXCEPT ![x] = "out"] /\ UNCHANGED stopping
       ELSE spc' = [spc EXCEPT ![x] = "handlers"] /\ stopping' = TRUE
    /\ UNCHANGED <<stop, chans, sret, scalls, mqStarts, httpStarts>>

\* Stop: stopWSHandler, stopHTTPServer, stopMQClient; then s.mu.Lock()
StopHandlers(x) ==
    /\ spc[x] = "handlers" /\ smu = NoThread
    /\ smu' = x
    /\ spc' = [spc EXCEPT ![x] = "send"]
    /\ UNCHANGED <<stopping, stop, chans, sret, scalls, mqStarts, httpStarts>>

\* Stop: s.stop <- err (the channel holds one value; a send on a full one
\* waits); close(s.stop); s.stop = nil; s.stopping = false; Unlock
StopFinish(x) ==
    /\ spc[x] = "send" /\ smu = x
    /\ chans[stop].sent < 1
    /\ chans' = [chans EXCEPT ![stop] = [sent |-> @.sent + 1, closed |-> TRUE]]
    /\ stop' = NoChan
    /\ stopping' = FALSE
    /\ smu' = NoThread
    /\ spc' = [spc EXCEPT ![x] = "out"]
    /\ UNCHANGED <<sret, scalls, mqStarts, httpStarts>>

SvcNext ==
    /\ \/ \E x \in Threads : Start(x)
       \/ \E x \in Threads : startLock(x)
       \/ \E x \in Threads, mqerr \in BOOLEAN : start(x, mqerr)
       \/ \E x \in Threads : Stop(x)
       \/ \E x \in Threads : StopLock(x)
       \/ \E x \in Threads : StopEnter(x)
       \/ \E x \in Threads : StopHandlers(x)
       \/ \E x \in Threads : StopFinish(x)
    /\ UNCHANGED <<cacheVars, subVars, lcsVars, lockVars>>

SvcSpec == Init /\ [][SvcNext]_vars

\* The step runs the body of start for a thread.
StartRuns(x) == spc[x] = "started" /\ spc'[x] # "started"

\* C20 (a): a Start that runs while a Stop is in progress returns the error
\* "server is stopping" and starts neither the messaging client nor the
\* HTTP server.
StartWhileStopping ==
    \A x \in Threads :
        (StartRuns(x) /\ stopping) =>
            /\ sret'[x] = ErrStopping
            /\ mqStarts' = mqStarts /\ httpStarts' = httpStarts

\* C20 (b): a Start on a started service that is not stopping returns nil
\* and starts nothing.
StartWhenStarted ==
    \A x \in Threads :
        (StartRuns(x) /\ stop # NoChan /\ ~stopping) =>
            /\ sret'[x] = RetNil
            /\ mqStarts' = mqStarts /\ httpStarts' = httpStarts /\ chans' = chans

\* C20 (c): a Stop that finds the service not started or already stopping
\* changes nothing, and a Stop that proceeds sends one value on the stop
\* channel and closes it.
StopOnce ==
    /\ \A x \in Threads :
          (spc[x] = "stoptest" /\ spc'[x] = "out") =>
              UNCHANGED <<stopping, stop, chans, mqStarts, httpStarts>>
    /\ \A c \in DOMAIN chans :
          /\ chans'[c].sent <= 1
          /\ chans'[c].closed => chans'[c].sent = 1
          /\ chans[c].closed => chans'[c] = chans[c]

\* C20: the three parts together.
C20_Lifecycle == [][StartWhileStopping /\ StartWhenStarted /\ StopOnce]_vars

\* C20 without part (a).
C20_StartedAndStop == [][StartWhenStarted /\ StopOnce]_vars

\* C20, part (a) as the code has it: a Start that runs while a Stop is in
\* progress returns nil and starts nothing.
C20_StartWhileStoppingNil ==
    [][\A x \in Threads :
          (StartRuns(x) /\ stopping) =>
              /\ sret'[x] = RetNil
              /\ mqStarts' = mqStarts /\ httpStarts' = httpStarts /\ chans' = chans]_vars

(***************************************************************************)
(* LockSpec: the mutex of the EventSubscription.  One resource without     *)
(* query.  The worker takes the mutex for a work item, runs the part of    *)
(* the item that precedes its callbacks, and then makes the callbacks one  *)
(* by one, with the Unlock and Lock the code has around them.  A callback  *)
(* returns at once or calls GetModel/GetCollection and Release first.      *)
(* Subscribers subscribe and read on threads of their own, under the       *)
(* mutex.                                                                  *)
(***************************************************************************)
Worker == "worker"
Callback == "callback"

WorkerFree == Running /\ wpc = "idle" /\ mu = NoThread /\ cbpc = "none"

\* The worker starts the work item of a get reply: processGetResponse
WGetReply(g, reply) ==
    /\ WorkerFree
    /\ BagIn(g, gets) /\ ~g.reset
    /\ \E st \in {enqueueGetResponse(Answered(Cur, g), g.rs, reply)} :
          /\ Install(st, handle, Last("GetReply", g.rs, "", NoEvent, reply))
          /\ wq' = st.cbs
    /\ mu' = Worker
    /\ wpc' = "unlock"
    /\ UNCHANGED <<phase, wrd, cbpc, tpc, svcVars>>

\* The worker starts the work item of a bus event: e.base.handleEvent(r) up
\* to the Unlock, or to the return that comes before it
WEvent(r) ==
    /\ WorkerFree
    /\ \E st \in {dispatchEvent(Cur, r)} :
          /\ Install(st, handle, Last("Event", base, "", r, NoReply))
          /\ wq' = st.cbs
    /\ mu' = Worker
    /\ wpc' = IF base # NoRs /\ EventPath(Cur, base, r) # "dropped" THEN "unlock" ELSE "finish"
    /\ UNCHANGED <<phase, wrd, cbpc, tpc, svcVars>>

\* The worker starts the work item of a reaccess resync: rs.handleResetAccess
\* has no Unlock before its loop
WResetAccess ==
    /\ WorkerFree
    /\ \E st \in {dispatchResetAccess(Cur)} :
          /\ Install(st, handle, Last("ResetAccess", base, "", NoEvent, NoReply))
          /\ wq' = st.cbs
    /\ mu' = Worker
    /\ wpc' = "calling"
    /\ wrd' = {"subs"}
    /\ UNCHANGED <<phase, cbpc, tpc, svcVars>>

\* rs.e.mu.Unlock() of handleEvent, handleEventDelete and enqueueGetResponse.
\* What follows reads rs.state (enqueueGetResponse), ranges over rs.subs
\* (handleEvent) or ranges over a local copy (handleEventDelete).
WUnlock ==
    /\ wpc = "unlock" /\ mu = Worker
    /\ mu' = NoThread
    /\ wpc' = IF last.op = "GetReply" THEN "check" ELSE "calling"
    /\ wrd' = IF last.op = "GetReply" THEN {"state"}
              ELSE IF last.ev.Event = "delete" THEN {}
              ELSE {"subs"}
    /\ UNCHANGED <<cacheVars, subVars, lcsVars, wq, cbpc, tpc, svcVars>>

\* if rs.state == stateError, in enqueueGetResponse: the Loaded calls of the
\* error branch read rs.err
WCheck ==
    /\ wpc = "check"
    /\ wpc' = "calling"
    /\ wrd' = IF rss[last.rs].state = stateError THEN {"err"} ELSE {}
    /\ UNCHANGED <<cacheVars, subVars, lcsVars, mu, wq, cbpc, tpc, svcVars>>

\* sub.Event(r), sub.Loaded(...) or sub.Reaccess(): the worker enters the
\* next callback; want tells whether the callback will ask for the mutex
WCall(want) ==
    /\ wpc = "calling" /\ wq # <<>> /\ cbpc = "none"
    /\ wq' = Tail(wq)
    /\ cbpc' = IF want THEN "wantlock" ELSE "running"
    /\ UNCHANGED <<cacheVars, subVars, lcsVars, mu, wpc, wrd, tpc, svcVars>>

\* rs.GetModel / rs.GetCollection called by the callback: rs.e.mu.Lock()
CbLock ==
    /\ cbpc = "wantlock" /\ mu = NoThread
    /\ mu' = Callback
    /\ cbpc' = "reading"
    /\ UNCHANGED <<cacheVars, subVars, lcsVars, wpc, wq, wrd, tpc, svcVars>>

\* rs.Release called by the callback
CbRelease ==
    /\ cbpc = "reading" /\ mu = Callback
    /\ mu' = NoThread
    /\ cbpc' = "running"
    /\ UNCHANGED <<cacheVars, subVars, lcsVars, wpc, wq, wrd, tpc, svcVars>>

\* The callback returns
CbReturn ==
    /\ cbpc = "running"
    /\ cbpc' = "none"
    /\ UNCHANGED <<cacheVars, subVars, lcsVars, mu, wpc, wq, wrd, tpc, svcVars>>

\* rs.e.mu.Lock() after the loop (handleEvent, handleEventDelete, the
\* deferred Lock of enqueueGetResponse); handleResetAccess has none
WRelock ==
    /\ wpc = "calling" /\ wq = <<>> /\ cbpc = "none"
    /\ mu \in {NoThread, Worker}
    /\ mu' = Worker
    /\ wpc' = "finish"
    /\ wrd' = {}
    /\ UNCHANGED <<cacheVars, subVars, lcsVars, wq, cbpc, tpc, svcVars>>

\* The work item returns and the worker releases the mutex
WFinish ==
    /\ wpc = "finish" /\ mu = Worker
    /\ mu' = NoThread
    /\ wpc' = "idle"
    /\ UNCHANGED <<cacheVars, subVars, lcsVars, wq, wrd, cbpc, tpc, svcVars>>

\* e.addSubscriber on the subscriber's thread: e.mu.Lock()
TSubscribeLock(s) ==
    /\ Running /\ phase[s] = "idle" /\ tpc[s] = "out"
    /\ mu = NoThread
    /\ mu' = s
    /\ tpc' = [tpc EXCEPT ![s] = "adding"]
    /\ UNCHANGED <<cacheVars, subVars, lcsVars, wpc, wq, wrd, cbpc, svcVars>>

\* Whether the worker is in the loop over the subscriber set of D number id
\* with the mutex released.
Ranging(id) == wpc = "calling" /\ "subs" \in wrd /\ mu # Worker /\ last.rs = id

\* e.addSubscriber under the mutex, up to its Unlock.  When it writes rs.subs
\* while the worker ranges over that map without the mutex, the outcome is
\* one of: the loop does not see the new entry, the loop sees it, the
\* runtime stops the program (concurrent map iteration and map write).
TSubscribe(s, outcome) ==
    /\ tpc[s] = "adding" /\ mu = s
    /\ \E st \in {addSubscriber(Cur, s, "")} :
          LET id    == Lookup(st, "")
              races == Ranging(id) /\ st.rss[id].state # stateError
          IN  /\ (~races) => outcome = "unseen"
              /\ Install([st EXCEPT !.crashed = (outcome = "fatal")],
                         [handle EXCEPT ![s] = id], last)
              /\ wq' = IF outcome = "seen" THEN Append(wq, CbEvent(s, id, last.ev)) ELSE wq
    /\ phase' = [phase EXCEPT ![s] = "subscribed"]
    /\ mu' = NoThread
    /\ tpc' = [tpc EXCEPT ![s] = "out"]
    /\ UNCHANGED <<wpc, wrd, cbpc, svcVars>>

\* rs.GetModel / rs.GetCollection on a thread of the subscriber
TReadLock(s) ==
    /\ Running /\ phase[s] = "subscribed" /\ tpc[s] = "out"
    /\ handle[s] # NoRs /\ loaded[s] > 0
    /\ mu = NoThread
    /\ mu' = s
    /\ tpc' = [tpc EXCEPT ![s] = "reading"]
    /\ UNCHANGED <<cacheVars, subVars, lcsVars, wpc, wq, wrd, cbpc, svcVars>>

\* rs.Release on that thread
TRelease(s) ==
    /\ tpc[s] = "reading" /\ mu = s
    /\ mu' = NoThread
    /\ tpc' = [tpc EXCEPT ![s] = "out"]
    /\ UNCHANGED <<cacheVars, subVars, lcsVars, wpc, wq, wrd, cbpc, svcVars>>

LockNext ==
    \/ \E g \in BagToSet(gets), reply \in {ModelReply("", M1), ErrorReply(ErrTimeout)} :
          WGetReply(g, reply)
    \/ \E r \in {NewEvent("change", EncodeChangeEvent(M2)),
                 NewEvent("change", EncodeChangeEvent(M1)),
                 NewEvent("delete", EmptyPayload)} : WEvent(r)
    \/ WResetAccess
    \/ WUnlock
    \/ WCheck
    \/ \E want \in BOOLEAN : WCall(want)
    \/ CbLock
    \/ CbRelease
    \/ CbReturn
    \/ WRelock
    \/ WFinish
    \/ \E s \in SpecSubs : Arrives(s) /\ CanResolve("", MaxRs) /\ TSubscribeLock(s)
    \/ \E s \in SpecSubs, outcome \in {"unseen", "seen", "fatal"} : TSubscribe(s, outcome)
    \/ \E s \in SpecSubs : TReadLock(s)
    \/ \E s \in SpecSubs : TRelease(s)

LockSpec == Init /\ [][LockNext]_vars

\* C15: while the worker is in a Subscriber callback it does not hold the
\* mutex, and it holds it again when the work item goes on.
C15_CallbacksUnlocked ==
    /\ cbpc # "none" => mu # Worker
    /\ wpc = "finish" => mu = Worker

\* C15 for the callbacks Event and Loaded alone.
C15_EventLoadedUnlocked ==
    /\ (cbpc # "none" /\ last.op # "ResetAccess") => mu # Worker
    /\ wpc = "finish" => mu = Worker

\* A callback waits for the mutex that the worker, which waits for the
\* callback to return, holds.
C15_Deadlocked == cbpc = "wantlock" /\ mu = Worker

\* C16: whenever the worker is about to read a field of the D, it holds the
\* mutex; and never does a thread that holds the mutex write rs.subs while
\* the worker ranges over it.
C16_FieldsUnderLock ==
    /\ (wpc \in {"check", "calling"} /\ wrd # {}) => mu = Worker
    /\ \A s \in Subs : ~(tpc[s] = "adding" /\ Ranging(base))

\* C16, the race alone.
C16_NoRace == \A s \in Subs : ~(tpc[s] = "adding" /\ base # NoRs /\ Ranging(base))

====
